---- MODULE Spec2Model ----
(***************************************************************************)
(* The dynamic stream instantiator of pddlstream                           *)
(* (pddlstream/algorithms/instantiation.py): get_mapping and the class     *)
(* Instantiator with its fields streams, stream_instances, stream_queue,   *)
(* atoms and atoms_from_domain.                                            *)
(*                                                                         *)
(* Data: an object or a parameter is a string (parameters start with "?"); *)
(* a fact is the tuple <<predicate, arg1, ..., argn>>; a head is the pair  *)
(* <<function, args>>; an evaluation is [head, value]; a stream is         *)
(* [name, inputs, domain]; a stream instance is <<stream index, inputs>>.  *)
(***************************************************************************)
EXTENDS Integers, Sequences, FiniteSets, TLC

VARIABLES
    streams,            \* self.streams: the stream declarations (fixed)
    facts,              \* the evaluations a caller may submit (fixed)
    debug,              \* Python's __debug__: are assert statements executed
    atoms,              \* self.atoms
    atoms_from_domain,  \* self.atoms_from_domain, keyed by <<i, j>>
    stream_instances,   \* self.stream_instances
    stream_queue,       \* self.stream_queue
    op,                 \* history: the last operation called
    arg,                \* history: the argument of the last add_atom
    ret,                \* history: what the last operation returned
    submitted,          \* history: the heads accepted, in order
    enq,                \* history: every instance appended to the queue, in order
    unified,            \* history: every <<i, combo>> passed to get_mapping, in order
    triggers,           \* history: for each entry of unified, the <<j, head>> whose
                        \* match with slot j made add_atom pass it
    popped,             \* history: the instances the consumer popped, in order
    twin                \* a second engine built from the same streams

vars == <<streams, facts, debug, atoms, atoms_from_domain, stream_instances,
          stream_queue, op, arg, ret, submitted, enq, unified, triggers, popped,
          twin>>

\* The greatest number of heads an engine accepts in a run.
MaxAtoms == 4
\* The greatest number of evaluations handed to the constructor.
MaxInitial == 1
\* The greatest number of heads either engine of a pair accepts.
MaxPair == 4

----------------------------------------------------------------------------
\* Objects, facts, heads

\* isinstance(b, Object): the literal constants; anything else is a parameter.
Object == {"a", "b", "block1", "table1", "table2"}

get_prefix(expression) == expression[1]

get_args(fact) == Tail(fact)

head_from_fact(fact) == <<get_prefix(fact), get_args(fact)>>

head_function(head) == head[1]

head_args(head) == head[2]

Evaluation(fact, value) == [head |-> head_from_fact(fact), value |-> value]

is_atom(evaluation) == evaluation.value = TRUE

Min(m, n) == IF m <= n THEN m ELSE n

\* zip of two sequences, asserting equal lengths; with assertions disabled
\* the zip stops at the shorter one.
safe_zip(sequence1, sequence2) ==
    IF debug /\ Len(sequence1) # Len(sequence2)
    THEN [raised |-> TRUE, pairs |-> <<>>]
    ELSE [raised |-> FALSE,
          pairs |-> [k \in 1..Min(Len(sequence1), Len(sequence2)) |->
                        <<sequence1[k], sequence2[k]>>]]

----------------------------------------------------------------------------
\* get_mapping

EmptyMapping == [x \in {} |-> x]

SetItem(mapping, key, value) ==
    [x \in (DOMAIN mapping) \cup {key} |-> IF x = key THEN value ELSE mapping[x]]

\* Mutation of bind_args: a literal constant is compared with the candidate
\* argument instead of being bound.
RECURSIVE bind_args_constants(_, _)
bind_args_constants(mapping, pairs) ==
    IF pairs = <<>> THEN [status |-> "mapping", mapping |-> mapping]
    ELSE LET arg1 == pairs[1][1]
             arg2 == pairs[1][2]
             got == IF arg1 \in DOMAIN mapping THEN mapping[arg1] ELSE arg2
         IN  IF arg1 \in Object
             THEN IF arg1 = arg2
                  THEN bind_args_constants(mapping, Tail(pairs))
                  ELSE [status |-> "None", mapping |-> EmptyMapping]
             ELSE IF got = arg2
             THEN bind_args_constants(SetItem(mapping, arg1, arg2), Tail(pairs))
             ELSE [status |-> "None", mapping |-> EmptyMapping]

\* The inner loop of get_mapping: status "mapping" or "None".
RECURSIVE bind_args(_, _)
bind_args(mapping, pairs) ==
    IF pairs = <<>> THEN [status |-> "mapping", mapping |-> mapping]
    ELSE LET arg1 == pairs[1][1]
             arg2 == pairs[1][2]
             got == IF arg1 \in DOMAIN mapping THEN mapping[arg1] ELSE arg2
         IN  IF got = arg2
             THEN bind_args(SetItem(mapping, arg1, arg2), Tail(pairs))
             ELSE [status |-> "None", mapping |-> EmptyMapping]

\* The outer loop of get_mapping over the zipped atoms.
RECURSIVE bind_atoms(_, _)
bind_atoms(mapping, atom_pairs) ==
    IF atom_pairs = <<>> THEN [status |-> "mapping", mapping |-> mapping]
    ELSE LET a1 == atom_pairs[1][1]
             a2 == atom_pairs[1][2]
             z == safe_zip(head_args(a1), head_args(a2))
         IN  IF debug /\ get_prefix(a1) # get_prefix(a2)
             THEN [status |-> "raise", mapping |-> EmptyMapping]
             ELSE IF z.raised
             THEN [status |-> "raise", mapping |-> EmptyMapping]
             ELSE LET r == bind_args(mapping, z.pairs)
                  IN  IF r.status = "mapping"
                      THEN bind_atoms(r.mapping, Tail(atom_pairs))
                      ELSE r

get_mapping(atoms1, atoms2) ==
    LET z == safe_zip(atoms1, atoms2)
    IN  IF z.raised THEN [status |-> "raise", mapping |-> EmptyMapping]
        ELSE bind_atoms(EmptyMapping, z.pairs)

----------------------------------------------------------------------------
\* itertools.product: the Cartesian product in lexicographic order, the
\* rightmost list advancing fastest.
\* Mutation of product: zip(*values), one combination per position.
product_zip(values) ==
    IF values = <<>> THEN << <<>> >>
    ELSE LET n == CHOOSE n \in 0..Len(values[1]) :
                      /\ \A k \in 1..Len(values) : Len(values[k]) >= n
                      /\ \E k \in 1..Len(values) : Len(values[k]) = n
         IN  [p \in 1..n |-> [k \in 1..Len(values) |-> values[k][p]]]

\* Mutation of product: the combinations in the reverse order.
RECURSIVE product_reversed(_)
product_reversed(values) ==
    IF values = <<>> THEN << <<>> >>
    ELSE LET rest == product_reversed(Tail(values))
             n == Len(values[1])
             m == Len(rest)
         IN  [k \in 1..(n * m) |->
                 <<values[1][n - ((k - 1) \div m)]>> \o rest[((k - 1) % m) + 1]]

RECURSIVE product(_)
product(values) ==
    IF values = <<>> THEN << <<>> >>
    ELSE LET rest == product(Tail(values))
             n == Len(values[1])
             m == Len(rest)
         IN  [k \in 1..(n * m) |->
                 <<values[1][((k - 1) \div m) + 1]>> \o rest[((k - 1) % m) + 1]]

----------------------------------------------------------------------------
\* class Instantiator.  An engine value `self` carries the four fields of the
\* class, the history sequences, and `raised`: an exception is propagating.

\* stream.get_instance(input_objects): one identity per stream and input tuple.
get_instance(i, input_objects) == <<i, input_objects>>

\* The <<i, j>> of enumerate(self.streams) x enumerate(stream.domain), in order.
RECURSIVE SlotsFrom(_, _)
SlotsFrom(strs, i) ==
    IF i > Len(strs) THEN <<>>
    ELSE [j \in 1..Len(strs[i].domain) |-> <<i, j>>] \o SlotsFrom(strs, i + 1)

Slots(strs) == SlotsFrom(strs, 1)

SlotSet(strs) == {Slots(strs)[k] : k \in 1..Len(Slots(strs))}

\* Mutation of _add_instance: the instance is queued but not recorded in
\* self.stream_instances.
_add_instance_unrecorded(self, i, input_objects) ==
    LET stream_instance == get_instance(i, input_objects)
    IN  IF stream_instance \in self.stream_instances
        THEN [self |-> self, ret |-> FALSE]
        ELSE [self |-> [self EXCEPT
                           !.stream_queue = Append(@, stream_instance),
                           !.enq = Append(@, stream_instance)],
              ret |-> TRUE]

\* Mutation of _add_instance: the instance set is assigned, not added to.
_add_instance_reset(self, i, input_objects) ==
    LET stream_instance == get_instance(i, input_objects)
    IN  IF stream_instance \in self.stream_instances
        THEN [self |-> self, ret |-> FALSE]
        ELSE [self |-> [self EXCEPT
                           !.stream_instances = {stream_instance},
                           !.stream_queue = Append(@, stream_instance),
                           !.enq = Append(@, stream_instance)],
              ret |-> TRUE]

\* Mutation of _add_instance: no test against self.stream_instances.
_add_instance_always(self, i, input_objects) ==
    LET stream_instance == get_instance(i, input_objects)
    IN  [self |-> [self EXCEPT
                      !.stream_instances = @ \cup {stream_instance},
                      !.stream_queue = Append(@, stream_instance),
                      !.enq = Append(@, stream_instance)],
         ret |-> TRUE]

_add_instance(self, i, input_objects) ==
    LET stream_instance == get_instance(i, input_objects)
    IN  IF stream_instance \in self.stream_instances
        THEN [self |-> self, ret |-> FALSE]
        ELSE [self |-> [self EXCEPT
                           !.stream_instances = @ \cup {stream_instance},
                           !.stream_queue = Append(@, stream_instance),
                           !.enq = Append(@, stream_instance)],
              ret |-> TRUE]

\* Mutation of add_combos: the input objects are read off in the order
\* opposite to the declared one.
RECURSIVE add_combos_reversed(_, _, _)
add_combos_reversed(self, i, combos) ==
    IF combos = <<>> THEN self
    ELSE LET stream == streams[i]
             domain == [k \in 1..Len(stream.domain) |-> head_from_fact(stream.domain[k])]
             combo == combos[1]
             seen == [self EXCEPT !.unified = Append(@, <<i, combo>>)]
             m == get_mapping(domain, combo)
             n == Len(stream.inputs)
         IN  IF m.status = "raise" THEN [seen EXCEPT !.raised = TRUE]
             ELSE IF m.status = "None" THEN add_combos_reversed(seen, i, Tail(combos))
             ELSE IF \E k \in 1..n : stream.inputs[k] \notin DOMAIN m.mapping
             THEN [seen EXCEPT !.raised = TRUE]
             ELSE LET input_objects == [k \in 1..n |-> m.mapping[stream.inputs[n + 1 - k]]]
                  IN  add_combos_reversed(_add_instance(seen, i, input_objects).self, i,
                                          Tail(combos))

\* Mutation of add_combos: the loop stops at the first combination that
\* get_mapping rejects.
RECURSIVE add_combos_break(_, _, _)
add_combos_break(self, i, combos) ==
    IF combos = <<>> THEN self
    ELSE LET stream == streams[i]
             domain == [k \in 1..Len(stream.domain) |-> head_from_fact(stream.domain[k])]
             combo == combos[1]
             seen == [self EXCEPT !.unified = Append(@, <<i, combo>>)]
             m == get_mapping(domain, combo)
         IN  IF m.status = "raise" THEN [seen EXCEPT !.raised = TRUE]
             ELSE IF m.status = "None" THEN seen
             ELSE IF \E k \in 1..Len(stream.inputs) : stream.inputs[k] \notin DOMAIN m.mapping
             THEN [seen EXCEPT !.raised = TRUE]
             ELSE LET input_objects == [k \in 1..Len(stream.inputs) |-> m.mapping[stream.inputs[k]]]
                  IN  add_combos_break(_add_instance(seen, i, input_objects).self, i,
                                       Tail(combos))

\* The loop of _add_combinations over the combinations still to visit.
RECURSIVE add_combos(_, _, _)
add_combos(self, i, combos) ==
    IF combos = <<>> THEN self
    ELSE LET stream == streams[i]
             domain == [k \in 1..Len(stream.domain) |->
                           head_from_fact(stream.domain[k])]
             combo == combos[1]
             seen == [self EXCEPT !.unified = Append(@, <<i, combo>>)]
             m == get_mapping(domain, combo)
         IN  IF m.status = "raise" THEN [seen EXCEPT !.raised = TRUE]
             ELSE IF m.status = "None" THEN add_combos(seen, i, Tail(combos))
             ELSE IF \E k \in 1..Len(stream.inputs) :
                        stream.inputs[k] \notin DOMAIN m.mapping
             THEN [seen EXCEPT !.raised = TRUE]           \* KeyError
             ELSE LET input_objects == [k \in 1..Len(stream.inputs) |->
                                           m.mapping[stream.inputs[k]]]
                  IN  add_combos(_add_instance(seen, i, input_objects).self,
                                 i, Tail(combos))

\* Mutation of _add_combinations: the loop ends at the first mapping found.
RECURSIVE add_combos_first(_, _, _)
add_combos_first(self, i, combos) ==
    IF combos = <<>> THEN self
    ELSE LET stepped == add_combos(self, i, <<combos[1]>>)
         IN  IF stepped.raised \/ stepped.enq # self.enq THEN stepped
             ELSE add_combos_first(stepped, i, Tail(combos))

_add_combinations_first(self, i, values) == add_combos_first(self, i, product(values))

_add_combinations(self, i, values) == add_combos(self, i, product(values))

\* Mutation of slot_test: no test of the literal constants.
slot_test_no_constants(head, domain_fact) ==
    IF head_function(head) # get_prefix(domain_fact) THEN "continue"
    ELSE IF safe_zip(head_args(head), get_args(domain_fact)).raised THEN "raise"
    ELSE "match"

\* Lines 68-72: does the head pass the tests of slot <<i, j>>?  "raise" when
\* safe_zip refuses the two argument lists.
slot_test(head, domain_fact) ==
    IF head_function(head) # get_prefix(domain_fact) THEN "continue"
    ELSE LET z == safe_zip(head_args(head), get_args(domain_fact))
         IN  IF z.raised THEN "raise"
             ELSE IF \E k \in 1..Len(z.pairs) :
                        z.pairs[k][2] \in Object /\ z.pairs[k][1] # z.pairs[k][2]
             THEN "continue"
             ELSE "match"

\* History: the combinations passed between `before` and `after` were passed
\* by the trigger of slot j for `head`.
Triggered(before, after, j, head) ==
    [after EXCEPT !.triggers =
        @ \o [k \in 1..(Len(after.unified) - Len(before.unified)) |-> <<j, head>>]]

\* Mutation of scan_slots: the lists of the other slots leave out the new head.
RECURSIVE scan_slots_others(_, _, _)
scan_slots_others(self, head, slots) ==
    IF slots = <<>> THEN self
    ELSE LET i == slots[1][1]
             j == slots[1][2]
             stream == streams[i]
             t == slot_test(head, stream.domain[j])
         IN  IF t = "raise" THEN [self EXCEPT !.raised = TRUE]
             ELSE IF t = "continue" THEN scan_slots_others(self, head, Tail(slots))
             ELSE LET s1 == [self EXCEPT
                                !.atoms_from_domain[<<i, j>>] = Append(@, head)]
                      values == [k \in 1..Len(stream.domain) |->
                                    IF j # k
                                    THEN SelectSeq(s1.atoms_from_domain[<<i, k>>],
                                                   LAMBDA h : h # head)
                                    ELSE <<head>>]
                      s2 == Triggered(s1, _add_combinations(s1, i, values), j, head)
                  IN  IF s2.raised THEN s2
                      ELSE scan_slots_others(s2, head, Tail(slots))

\* Mutation of scan_slots: the new head is put at the front of the slot's list.
RECURSIVE scan_slots_prepend(_, _, _)
scan_slots_prepend(self, head, slots) ==
    IF slots = <<>> THEN self
    ELSE LET i == slots[1][1]
             j == slots[1][2]
             stream == streams[i]
             t == slot_test(head, stream.domain[j])
         IN  IF t = "raise" THEN [self EXCEPT !.raised = TRUE]
             ELSE IF t = "continue" THEN scan_slots_prepend(self, head, Tail(slots))
             ELSE LET s1 == [self EXCEPT
                                !.atoms_from_domain[<<i, j>>] = <<head>> \o @]
                      values == [k \in 1..Len(stream.domain) |->
                                    IF j # k THEN s1.atoms_from_domain[<<i, k>>]
                                    ELSE <<head>>]
                      s2 == Triggered(s1, _add_combinations(s1, i, values), j, head)
                  IN  IF s2.raised THEN s2
                      ELSE scan_slots_prepend(s2, head, Tail(slots))

\* Mutation of scan_slots: the whole list of slot j is passed, not the
\* singleton of the new head.
RECURSIVE scan_slots_full(_, _, _)
scan_slots_full(self, head, slots) ==
    IF slots = <<>> THEN self
    ELSE LET i == slots[1][1]
             j == slots[1][2]
             stream == streams[i]
             t == slot_test(head, stream.domain[j])
         IN  IF t = "raise" THEN [self EXCEPT !.raised = TRUE]
             ELSE IF t = "continue" THEN scan_slots_full(self, head, Tail(slots))
             ELSE LET s1 == [self EXCEPT
                                !.atoms_from_domain[<<i, j>>] = Append(@, head)]
                      values == [k \in 1..Len(stream.domain) |->
                                    s1.atoms_from_domain[<<i, k>>]]
                      s2 == Triggered(s1, _add_combinations(s1, i, values), j, head)
                  IN  IF s2.raised THEN s2
                      ELSE scan_slots_full(s2, head, Tail(slots))

\* The two loops of add_atom over the slots still to visit.
RECURSIVE scan_slots(_, _, _)
scan_slots(self, head, slots) ==
    IF slots = <<>> THEN self
    ELSE LET i == slots[1][1]
             j == slots[1][2]
             stream == streams[i]
             t == slot_test(head, stream.domain[j])
         IN  IF t = "raise" THEN [self EXCEPT !.raised = TRUE]
             ELSE IF t = "continue" THEN scan_slots(self, head, Tail(slots))
             ELSE LET s1 == [self EXCEPT
                                !.atoms_from_domain[<<i, j>>] = Append(@, head)]
                      values == [k \in 1..Len(stream.domain) |->
                                    IF j # k THEN s1.atoms_from_domain[<<i, k>>]
                                    ELSE <<head>>]
                      s2 == Triggered(s1, _add_combinations(s1, i, values), j, head)
                  IN  IF s2.raised THEN s2
                      ELSE scan_slots(s2, head, Tail(slots))

\* Mutation of add_atom: a head that matched no slot is not kept.
add_atom_matched(self, atom) ==
    IF ~is_atom(atom) THEN [self |-> self, ret |-> "False"]
    ELSE LET head == atom.head
         IN  IF head \in self.atoms THEN [self |-> self, ret |-> "False"]
             ELSE LET s1 == [self EXCEPT !.atoms = @ \cup {head},
                                         !.submitted = Append(@, head)]
                      s2 == scan_slots(s1, head, Slots(streams))
                  IN  IF s2.atoms_from_domain = self.atoms_from_domain /\ ~s2.raised
                      THEN [self |-> self, ret |-> "False"]
                      ELSE [self |-> [s2 EXCEPT !.raised = FALSE],
                            ret |-> IF s2.raised THEN "raise" ELSE "True"]

\* Mutation of add_atom: no test of the head against self.atoms.
add_atom_unchecked(self, atom) ==
    IF ~is_atom(atom) THEN [self |-> self, ret |-> "False"]
    ELSE LET head == atom.head
             s1 == [self EXCEPT !.atoms = @ \cup {head},
                                !.submitted = Append(@, head)]
             s2 == scan_slots(s1, head, Slots(streams))
         IN  [self |-> [s2 EXCEPT !.raised = FALSE],
              ret |-> IF s2.raised THEN "raise" ELSE "True"]

\* Mutation of add_atom: no test of is_atom.
add_atom_any(self, atom) ==
    LET head == atom.head
    IN  IF head \in self.atoms THEN [self |-> self, ret |-> "False"]
        ELSE LET s1 == [self EXCEPT !.atoms = @ \cup {head},
                                    !.submitted = Append(@, head)]
                 s2 == scan_slots(s1, head, Slots(streams))
             IN  [self |-> [s2 EXCEPT !.raised = FALSE],
                  ret |-> IF s2.raised THEN "raise" ELSE "True"]

\* Mutation of add_atom: the head joins self.atoms after the loops, so not
\* at all when they raise.
add_atom_late(self, atom) ==
    IF ~is_atom(atom) THEN [self |-> self, ret |-> "False"]
    ELSE LET head == atom.head
         IN  IF head \in self.atoms THEN [self |-> self, ret |-> "False"]
             ELSE LET s1 == [self EXCEPT !.submitted = Append(@, head)]
                      s2 == scan_slots(s1, head, Slots(streams))
                  IN  IF s2.raised
                      THEN [self |-> [s2 EXCEPT !.raised = FALSE], ret |-> "raise"]
                      ELSE [self |-> [s2 EXCEPT !.atoms = @ \cup {head}],
                            ret |-> "True"]

\* ret is "True", "False" or "raise".
add_atom(self, atom) ==
    IF ~is_atom(atom) THEN [self |-> self, ret |-> "False"]
    ELSE LET head == atom.head
         IN  IF head \in self.atoms THEN [self |-> self, ret |-> "False"]
             ELSE LET s1 == [self EXCEPT !.atoms = @ \cup {head},
                                         !.submitted = Append(@, head)]
                      s2 == scan_slots(s1, head, Slots(streams))
                  IN  [self |-> [s2 EXCEPT !.raised = FALSE],
                       ret |-> IF s2.raised THEN "raise" ELSE "True"]

\* Mutation of init_streams: only the streams that have no domain either.
RECURSIVE init_streams_no_domain(_, _)
init_streams_no_domain(self, i) ==
    IF i > Len(streams) THEN self
    ELSE IF streams[i].inputs = <<>> /\ streams[i].domain = <<>>
    THEN init_streams_no_domain(_add_instance(self, i, <<>>).self, i + 1)
    ELSE init_streams_no_domain(self, i + 1)

\* The first loop of __init__: the streams without inputs.
RECURSIVE init_streams(_, _)
init_streams(self, i) ==
    IF i > Len(streams) THEN self
    ELSE IF streams[i].inputs = <<>>
    THEN init_streams(_add_instance(self, i, <<>>).self, i + 1)
    ELSE init_streams(self, i + 1)

\* The second loop of __init__: add_atom on each evaluation.
RECURSIVE init_atoms(_, _)
init_atoms(r, evaluations) ==
    IF evaluations = <<>> \/ r.ret = "raise" THEN r
    ELSE init_atoms(add_atom(r.self, evaluations[1]), Tail(evaluations))

\* Instantiator(evaluations, streams); ret is "raise" when __init__ raised.
Instantiator(evaluations) ==
    LET blank == [atoms |-> {},
                  atoms_from_domain |-> [s \in SlotSet(streams) |-> <<>>],
                  stream_instances |-> {},
                  stream_queue |-> <<>>,
                  submitted |-> <<>>, enq |-> <<>>, unified |-> <<>>,
                  triggers |-> <<>>, raised |-> FALSE]
    IN  init_atoms([self |-> init_streams(blank, 1), ret |-> "None"], evaluations)

----------------------------------------------------------------------------
\* The stream declarations and the evaluations the model is run on.

Stream(name, inputs, domain) == [name |-> name, inputs |-> inputs, domain |-> domain]

Atom(fact) == Evaluation(fact, TRUE)

NegatedAtom(fact) == Evaluation(fact, FALSE)

\* One stream with one input and one domain fact.
ScenarioS1 ==
    [streams |-> << Stream("S1", <<"?x">>, << <<"Obj", "?x">> >>) >>,
     facts |-> {Atom(<<"Obj", "block1">>), Atom(<<"Obj", "a">>), Atom(<<"Obj", "b">>),
                Atom(<<"Free", "a">>), NegatedAtom(<<"Obj", "a">>)}]

\* One predicate in two slots of one stream.
ScenarioS2 ==
    [streams |-> << Stream("S2", <<"?x", "?y">>,
                           << <<"Obj", "?x">>, <<"Obj", "?y">> >>) >>,
     facts |-> {Atom(<<"Obj", "a">>), Atom(<<"Obj", "b">>), Atom(<<"Free", "a">>),
                NegatedAtom(<<"Obj", "b">>)}]

\* A join on a shared parameter; the second stream keeps only ?x.
ScenarioJoin ==
    [streams |-> << Stream("S3", <<"?x", "?y">>,
                           << <<"Pred", "?x">>, <<"Pred2", "?x", "?y">> >>),
                    Stream("S3x", <<"?x">>,
                           << <<"Pred", "?x">>, <<"Pred2", "?x", "?y">> >>) >>,
     facts |-> {Atom(<<"Pred", "a">>), Atom(<<"Pred", "b">>),
                Atom(<<"Pred2", "a", "b">>), Atom(<<"Pred2", "a", "a">>),
                Atom(<<"Pred2", "b", "a">>), NegatedAtom(<<"Pred", "a">>)}]

\* A literal constant in a domain fact.
ScenarioConst ==
    [streams |-> << Stream("S4", <<"?x">>, << <<"On", "?x", "table1">> >>),
                    Stream("S4p", <<"?x", "?y">>,
                           << <<"On", "?x", "table1">>, <<"On", "?y", "table2">> >>) >>,
     facts |-> {Atom(<<"On", "a", "table1">>), Atom(<<"On", "a", "table2">>),
                Atom(<<"On", "b", "table1">>), Atom(<<"On", "table1", "table2">>),
                NegatedAtom(<<"On", "a", "table1">>)}]

\* Streams without inputs, with and without a domain.
ScenarioZero ==
    [streams |-> << Stream("S1", <<"?x">>, << <<"Obj", "?x">> >>),
                    Stream("Z0", <<>>, <<>>),
                    Stream("Z1", <<>>, << <<"Obj", "?x">> >>) >>,
     facts |-> {Atom(<<"Obj", "a">>), Atom(<<"Obj", "b">>), Atom(<<"Free", "a">>),
                NegatedAtom(<<"Obj", "a">>)}]

\* Inputs declared in another order than the domain names them, and one
\* parameter at two positions of one domain fact.
ScenarioOrder ==
    [streams |-> << Stream("S5", <<"?y", "?x">>, << <<"Pred2", "?x", "?y">> >>),
                    Stream("S6", <<"?x">>, << <<"Pred2", "?x", "?x">> >>) >>,
     facts |-> {Atom(<<"Pred2", "a", "b">>), Atom(<<"Pred2", "b", "a">>),
                Atom(<<"Pred2", "a", "a">>), Atom(<<"Pred2", "b", "b">>),
                NegatedAtom(<<"Pred2", "a", "b">>)}]

Scenarios == {ScenarioS1, ScenarioS2, ScenarioJoin, ScenarioConst, ScenarioZero,
              ScenarioOrder}

\* Facts whose number of arguments is not the one the domain facts of the
\* same predicate have.
ScenarioArity ==
    [streams |-> << Stream("S1", <<"?x">>, << <<"Obj", "?x">> >>),
                    Stream("S7", <<"?x", "?y">>, << <<"Pred2", "?x", "?y">> >>) >>,
     facts |-> {Atom(<<"Obj", "a">>), Atom(<<"Obj", "a", "b">>),
                Atom(<<"Pred2", "a", "b">>), Atom(<<"Pred2", "a">>),
                Atom(<<"Pred2", "a", "b", "a">>), NegatedAtom(<<"Pred2", "b">>)}]

\* One literal constant at two positions of a domain.
ScenarioUnify ==
    [streams |-> << Stream("S8", <<"?x", "?y">>,
                           << <<"On", "?x", "table1">>, <<"On", "?y", "table1">> >>) >>,
     facts |-> {Atom(<<"On", "a", "table1">>), Atom(<<"On", "b", "table1">>),
                Atom(<<"On", "a", "table2">>)}]

SeqsUpTo(S, n) == UNION {[1..k -> S] : k \in 0..n}

----------------------------------------------------------------------------
\* The state machine

\* The engine the variables hold, as a value.
Self ==
    [atoms |-> atoms, atoms_from_domain |-> atoms_from_domain,
     stream_instances |-> stream_instances, stream_queue |-> stream_queue,
     submitted |-> submitted, enq |-> enq, unified |-> unified,
     triggers |-> triggers, raised |-> FALSE]

Engine(self) ==
    /\ atoms = self.atoms
    /\ atoms_from_domain = self.atoms_from_domain
    /\ stream_instances = self.stream_instances
    /\ stream_queue = self.stream_queue
    /\ submitted = self.submitted
    /\ enq = self.enq
    /\ unified = self.unified
    /\ triggers = self.triggers

\* The state after Instantiator(evaluations, streams) returned.
InitWith(scenarios, debugs) ==
    \E sc \in scenarios, dbg \in debugs :
        /\ streams = sc.streams
        /\ facts = sc.facts
        /\ debug = dbg
        /\ \E evaluations \in SeqsUpTo(sc.facts, MaxInitial) :
              LET r == Instantiator(evaluations)
              IN  /\ r.ret # "raise"
                  /\ Cardinality(r.self.atoms) <= MaxAtoms
                  /\ Engine(r.self)
                  /\ arg = evaluations
        /\ op = "__init__"
        /\ ret = "None"
        /\ popped = <<>>
        /\ twin = Instantiator(<<>>).self

Init == InitWith(Scenarios, {TRUE})

InitArity == InitWith({ScenarioArity}, BOOLEAN)

\* instantiator.add_atom(atom)
Submit(atom) ==
    /\ (is_atom(atom) /\ atom.head \notin atoms) => Cardinality(atoms) < MaxAtoms
    /\ LET r == add_atom(Self, atom)
       IN  /\ atoms' = r.self.atoms
           /\ atoms_from_domain' = r.self.atoms_from_domain
           /\ stream_instances' = r.self.stream_instances
           /\ stream_queue' = r.self.stream_queue
           /\ submitted' = r.self.submitted
           /\ enq' = r.self.enq
           /\ unified' = r.self.unified
           /\ triggers' = r.self.triggers
           /\ ret' = r.ret
    /\ op' = "add_atom"
    /\ arg' = atom
    /\ UNCHANGED <<streams, facts, debug, popped, twin>>

\* The consumer's instantiator.stream_queue.popleft()
Pop ==
    /\ stream_queue # <<>>
    /\ stream_queue' = Tail(stream_queue)
    /\ popped' = Append(popped, Head(stream_queue))
    /\ op' = "popleft"
    /\ ret' = "None"
    /\ UNCHANGED <<streams, facts, debug, atoms, atoms_from_domain,
                   stream_instances, submitted, enq, unified, triggers, arg, twin>>

Next ==
    \/ \E atom \in facts : Submit(atom)
    \/ Pop

Spec == Init /\ [][Next]_vars

SpecArity == InitArity /\ [][Next]_vars

\* Two engines built from the same streams.  The first is fed new facts in any
\* order; the twin is fed, in any order of its own, the facts the first has
\* accepted.  (A submit that is rejected changes neither engine.)
SubmitFirst(atom) ==
    /\ is_atom(atom)
    /\ atom.head \notin atoms
    /\ Cardinality(atoms) < MaxPair
    /\ Submit(atom)

SubmitTwin(atom) ==
    /\ is_atom(atom)
    /\ atom.head \in atoms
    /\ atom.head \notin twin.atoms
    /\ twin' = add_atom(twin, atom).self
    /\ UNCHANGED <<streams, facts, debug, atoms, atoms_from_domain, stream_instances,
                   stream_queue, op, arg, ret, submitted, enq, unified, triggers,
                   popped>>

NextPair ==
    \/ \E atom \in facts : SubmitFirst(atom)
    \/ \E atom \in facts : SubmitTwin(atom)

SpecPair == Init /\ [][NextPair]_vars

\* The fixpoint loop around the engine: a consumer that pops the front
\* instance and submits facts, the new ones until none is left.
FeedAtom(atom) ==
    /\ LET r == add_atom(Self, atom)
       IN  /\ atoms' = r.self.atoms
           /\ atoms_from_domain' = r.self.atoms_from_domain
           /\ stream_instances' = r.self.stream_instances
           /\ stream_queue' = r.self.stream_queue
           /\ submitted' = r.self.submitted
           /\ enq' = r.self.enq
           /\ unified' = r.self.unified
           /\ triggers' = r.self.triggers
           /\ ret' = r.ret
    /\ op' = "add_atom"
    /\ arg' = atom
    /\ UNCHANGED <<streams, facts, debug, popped, twin>>

Feed ==
    \E atom \in facts : is_atom(atom) /\ atom.head \notin atoms /\ FeedAtom(atom)

FeedAgain ==
    \E atom \in facts : ~(is_atom(atom) /\ atom.head \notin atoms) /\ FeedAtom(atom)

NextLoop ==
    \/ Feed
    \/ FeedAgain
    \/ Pop

\* A fact is left that add_atom would accept: <<Feed>>_vars is enabled.
FactLeft == \E atom \in facts : is_atom(atom) /\ atom.head \notin atoms

\* The consumer is fair: it pops while the queue holds an instance, and it
\* submits while a new fact is left.  The second condition is WF_vars(Feed)
\* written out, with FactLeft for ENABLED <<Feed>>_vars.
SpecLoop ==
    /\ Init
    /\ [][NextLoop]_vars
    /\ WF_vars(Pop)
    /\ ([]<>(~FactLeft) \/ []<><<Feed>>_vars)

\* get_mapping called on its own, outside add_atom: atoms1 is the domain of
\* stream i, atoms2 any heads of the same predicates and numbers of arguments.
UnifyObjects == {"a", "b", "table1", "table2"}

HeadsLike(domain_fact) ==
    {<<get_prefix(domain_fact), args>> :
        args \in [1..Len(get_args(domain_fact)) -> UnifyObjects]}

Candidates(i) ==
    LET domain == streams[i].domain
    IN  {atoms2 \in [1..Len(domain) -> UNION {HeadsLike(domain[k]) : k \in 1..Len(domain)}] :
            \A k \in 1..Len(domain) : atoms2[k] \in HeadsLike(domain[k])}

Unify(atoms1, atoms2) ==
    /\ op' = "get_mapping"
    /\ arg' = <<atoms1, atoms2>>
    /\ ret' = get_mapping(atoms1, atoms2)
    /\ UNCHANGED <<streams, facts, debug, atoms, atoms_from_domain, stream_instances,
                   stream_queue, submitted, enq, unified, triggers, popped, twin>>

NextUnify ==
    \E i \in 1..Len(streams) : \E atoms2 \in Candidates(i) :
        Unify([k \in 1..Len(streams[i].domain) |-> head_from_fact(streams[i].domain[k])],
              atoms2)

\* get_mapping reads no field of an engine: the engines are the new ones.
InitUnify ==
    \E sc \in {ScenarioConst, ScenarioJoin, ScenarioUnify} :
        /\ streams = sc.streams
        /\ facts = sc.facts
        /\ debug = TRUE
        /\ Engine(Instantiator(<<>>).self)
        /\ op = "__init__"
        /\ arg = <<>>
        /\ ret = "None"
        /\ popped = <<>>
        /\ twin = Instantiator(<<>>).self

SpecUnify == InitUnify /\ [][NextUnify]_vars

----------------------------------------------------------------------------
\* Vocabulary of the properties

Range(seq) == {seq[k] : k \in 1..Len(seq)}

Count(seq, x) == Cardinality({k \in 1..Len(seq) : seq[k] = x})

\* The position of x in a sequence that holds it.
IndexOf(seq, x) == CHOOSE k \in 1..Len(seq) : seq[k] = x

\* A head is slot-compatible with a domain fact: same predicate, same number
\* of arguments, equal on every literal-constant position.
SlotCompatible(head, domain_fact) ==
    /\ head[1] = domain_fact[1]
    /\ Len(head[2]) = Len(domain_fact) - 1
    /\ \A k \in 1..Len(head[2]) :
          domain_fact[k + 1] \in Object => head[2][k] = domain_fact[k + 1]

DomainHeads(i) ==
    [k \in 1..Len(streams[i].domain) |-> head_from_fact(streams[i].domain[k])]

\* The tuples of heads of `known`, one slot-compatible head per domain slot.
CompatibleTuples(i, known) ==
    {c \in [1..Len(streams[i].domain) -> known] :
        \A k \in 1..Len(streams[i].domain) : SlotCompatible(c[k], streams[i].domain[k])}

\* Does get_mapping succeed on the combination, binding every input?
Grounds(i, combo) ==
    LET m == get_mapping(DomainHeads(i), combo)
    IN  /\ m.status = "mapping"
        /\ \A k \in 1..Len(streams[i].inputs) : streams[i].inputs[k] \in DOMAIN m.mapping

\* The instance a grounding combination stands for.
InstanceOf(i, combo) ==
    LET m == get_mapping(DomainHeads(i), combo)
    IN  <<i, [k \in 1..Len(streams[i].inputs) |-> m.mapping[streams[i].inputs[k]]]>>

\* The naive full join of stream i over the heads of `known`.
NaiveJoin(i, known) ==
    {InstanceOf(i, c) : c \in {c \in CompatibleTuples(i, known) : Grounds(i, c)}}

EngineFields == <<atoms, atoms_from_domain, stream_instances, stream_queue>>

----------------------------------------------------------------------------
\* C1: the first add_atom of a well-formed atom returns true and adds its
\* head; every add_atom of an atom whose head is already known returns false
\* and leaves atoms, the index lists, the instance set and the queue as they
\* were; applying add_atom twice gives the engine that applying it once gives.
C1_SubmitIdempotent ==
    /\ [][op' = "add_atom" =>
            /\ (is_atom(arg') /\ arg'.head \notin atoms)
                  => (ret' = "True" /\ arg'.head \in atoms')
            /\ (arg'.head \in atoms)
                  => (ret' = "False" /\ UNCHANGED EngineFields)]_vars
    /\ [](\A atom \in facts :
            LET once == add_atom(Self, atom)
                twice == add_atom(once.self, atom)
            IN  twice.ret = "False" /\ twice.self = once.self)

\* A known atom was submitted again, and add_atom returned false.
C1_Witness ==
    /\ op = "add_atom"
    /\ is_atom(arg)
    /\ ret = "False"
    /\ arg.head \in atoms
    /\ stream_queue # <<>>

\* C2: two engines built from the same streams that have accepted the same
\* set of facts, in whatever orders, hold the same set of stream instances.
C2_OrderIndependent ==
    twin.atoms = atoms => twin.stream_instances = stream_instances

\* The two engines accepted the same three facts in different orders, and
\* their queues differ in order.
C2_Witness ==
    /\ twin.atoms = atoms
    /\ Cardinality(atoms) >= 3
    /\ twin.submitted # submitted
    /\ twin.stream_queue # stream_queue
    /\ stream_instances # {}

\* C3: for every stream with inputs, the instance set holds exactly the naive
\* join of the known heads; and with domain [Pred(?x), Pred2(?x, ?y)], once
\* Pred(a) and Pred2(a, b) are known, in either order, the instance bound to
\* (a, b) has been enqueued exactly once.
C3_NoMissedCombinations ==
    /\ \A i \in 1..Len(streams) :
          streams[i].inputs # <<>> =>
              {inst \in stream_instances : inst[1] = i} = NaiveJoin(i, atoms)
    /\ (streams = ScenarioJoin.streams
        /\ {<<"Pred", <<"a">>>>, <<"Pred2", <<"a", "b">>>>} \subseteq atoms)
          => Count(enq, <<1, <<"a", "b">>>>) = 1

\* Pred2(a, b) was accepted before Pred(a), and the instance exists.
C3_Witness ==
    /\ streams = ScenarioJoin.streams
    /\ {<<"Pred", <<"a">>>>, <<"Pred2", <<"a", "b">>>>} \subseteq atoms
    /\ IndexOf(submitted, <<"Pred2", <<"a", "b">>>>) < IndexOf(submitted, <<"Pred", <<"a">>>>)
    /\ <<1, <<"a", "b">>>> \in stream_instances

\* C4: over submits and pops, no instance is appended to the queue twice in
\* the whole run (enq is the log of every append); and _add_instance on an
\* absent identity returns true, inserts it and appends it at the tail of the
\* queue, while on a present identity it returns false and changes nothing.
C4_NoDuplicateInstances ==
    /\ \A inst \in Range(enq) : Count(enq, inst) = 1
    /\ \A i \in 1..Len(streams) :
          \A input_objects \in [1..Len(streams[i].inputs) -> Object] :
              LET inst == <<i, input_objects>>
                  r == _add_instance(Self, i, input_objects)
              IN  IF inst \in stream_instances
                  THEN r.ret = FALSE /\ r.self = Self
                  ELSE /\ r.ret = TRUE
                       /\ r.self.stream_queue = stream_queue \o <<inst>>
                       /\ r.self.stream_instances = stream_instances \cup {inst}
                       /\ r.self.atoms = atoms
                       /\ r.self.atoms_from_domain = atoms_from_domain

\* The last add_atom found, through a combination holding its new head, an
\* instance the consumer had already popped.
C4_Witness ==
    /\ op = "add_atom"
    /\ ret = "True"
    /\ \E u \in Range(unified) :
          /\ arg.head \in Range(u[2])
          /\ Grounds(u[1], u[2])
          /\ InstanceOf(u[1], u[2]) \in Range(popped)

ZeroInput == {i \in 1..Len(streams) : streams[i].inputs = <<>>}

\* C5: every stream without inputs is appended exactly once in the whole run,
\* and its append is among the first ones, in declaration order, ahead of
\* every instance that comes from a fact.
C5_ZeroInputGrounding ==
    \A i \in ZeroInput :
        /\ Count(enq, <<i, <<>>>>) = 1
        /\ IndexOf(enq, <<i, <<>>>>) = Cardinality({z \in ZeroInput : z <= i})

\* A later add_atom unified Obj(a) with the domain of the zero-input stream Z1.
C5_Witness ==
    /\ streams = ScenarioZero.streams
    /\ op = "add_atom"
    /\ ret = "True"
    /\ arg = Atom(<<"Obj", "a">>)
    /\ <<3, << <<"Obj", <<"a">>>> >> >> \in Range(unified)
    /\ Len(enq) > 2

\* The head equals the domain fact on every literal-constant position.
AgreesOnConstants(head, domain_fact) ==
    \A k \in 1..(Len(domain_fact) - 1) :
        domain_fact[k + 1] \in Object
            => (k <= Len(head[2]) /\ head[2][k] = domain_fact[k + 1])

\* C6: every head in the index list of slot <<i, j>>, and every head at
\* position j of a combination passed to get_mapping for stream i, agrees with
\* domain fact j of stream i on its literal constants; with domain
\* [On(?x, table1)], add_atom of On(a, table2) appends nothing to that slot
\* and adds no instance of that stream.
C6_ConstantConstraint ==
    /\ [](\A s \in SlotSet(streams) :
            \A head \in Range(atoms_from_domain[s]) :
                AgreesOnConstants(head, streams[s[1]].domain[s[2]]))
    /\ [](\A u \in Range(unified) :
            \A k \in 1..Len(u[2]) :
                AgreesOnConstants(u[2][k], streams[u[1]].domain[k]))
    /\ [][(/\ op' = "add_atom"
           /\ streams = ScenarioConst.streams
           /\ arg' = Atom(<<"On", "a", "table2">>))
            => /\ atoms_from_domain'[<<1, 1>>] = atoms_from_domain[<<1, 1>>]
               /\ {inst \in stream_instances' : inst[1] = 1}
                     = {inst \in stream_instances : inst[1] = 1}]_vars

\* On(a, table2) was accepted while On(a, table1) sat in the slot of On(?x, table1).
C6_Witness ==
    /\ streams = ScenarioConst.streams
    /\ op = "add_atom"
    /\ arg = Atom(<<"On", "a", "table2">>)
    /\ ret = "True"
    /\ atoms_from_domain[<<1, 1>>] = << <<"On", <<"a", "table1">>>> >>

\* Some domain fact has the head's predicate and another number of arguments.
ArityMismatch(head) ==
    \E s \in SlotSet(streams) :
        LET domain_fact == streams[s[1]].domain[s[2]]
        IN  domain_fact[1] = head[1] /\ Len(domain_fact) - 1 # Len(head[2])

\* C7 as stated: add_atom of a fact whose arity differs from that of a domain
\* fact with the same predicate returns false, raises nothing and changes
\* nothing.
C7_ArityRejectedSilently ==
    [][(op' = "add_atom" /\ is_atom(arg') /\ ArityMismatch(arg'.head))
          => (ret' = "False" /\ UNCHANGED EngineFields)]_vars

\* C7 as amended: add_atom of a well-formed fact with such an arity, its head
\* not yet known, adds the head to self.atoms and does not return false: with
\* assertions enabled it raises, with them disabled it returns true or raises.
C7_ArityNotRejected ==
    [][(/\ op' = "add_atom"
        /\ is_atom(arg')
        /\ ArityMismatch(arg'.head)
        /\ arg'.head \notin atoms)
          => /\ arg'.head \in atoms'
             /\ ret' \in {"True", "raise"}
             /\ debug => ret' = "raise"]_vars

\* add_atom raised on a fact of another arity, and its head is known now.
C7_Witness ==
    /\ op = "add_atom"
    /\ is_atom(arg)
    /\ ArityMismatch(arg.head)
    /\ ret = "raise"
    /\ arg.head \in atoms

\* C8: add_atom of an evaluation that is not an atom returns false and leaves
\* atoms, every index list, the instance set and the queue unchanged.
C8_NotAtomRejected ==
    [][(op' = "add_atom" /\ ~is_atom(arg'))
          => (ret' = "False" /\ UNCHANGED EngineFields)]_vars

\* A negated atom whose head is not known was submitted and rejected.
C8_Witness ==
    /\ op = "add_atom"
    /\ ~is_atom(arg)
    /\ ret = "False"
    /\ arg.head \notin atoms
    /\ atoms # {}

\* C9: with S2(inputs [x, y], domain [Obj(x), Obj(y)]), after Obj(a) then
\* Obj(b) and before any pop, the queue holds exactly the instances (a, a),
\* (a, b), (b, a), (b, b), each once.  In general a known head is recorded
\* once in every slot it is compatible with, and every compatible combination
\* that uses one head in more than one slot was passed to get_mapping and, if
\* it grounds, its instance exists.
C9_SelfPairing ==
    /\ (/\ streams = ScenarioS2.streams
        /\ popped = <<>>
        /\ {<<"Obj", <<"a">>>>, <<"Obj", <<"b">>>>} \subseteq atoms
        /\ IndexOf(submitted, <<"Obj", <<"a">>>>) < IndexOf(submitted, <<"Obj", <<"b">>>>))
          => /\ Len(stream_queue) = 4
             /\ Range(stream_queue) = {<<1, <<x, y>>>> : x, y \in {"a", "b"}}
    /\ \A s \in SlotSet(streams) :
          \A head \in atoms :
              SlotCompatible(head, streams[s[1]].domain[s[2]])
                  => Count(atoms_from_domain[s], head) = 1
    /\ \A i \in 1..Len(streams) :
          \A c \in CompatibleTuples(i, atoms) :
              (\E j, k \in 1..Len(c) : j # k /\ c[j] = c[k])
                  => /\ \E u \in Range(unified) : u[1] = i /\ u[2] = c
                     /\ Grounds(i, c) => InstanceOf(i, c) \in stream_instances

\* Obj(a) then Obj(b) were submitted to S2 and nothing was popped.
C9_Witness ==
    /\ streams = ScenarioS2.streams
    /\ popped = <<>>
    /\ submitted = << <<"Obj", <<"a">>>>, <<"Obj", <<"b">>>> >>
    /\ stream_queue = << <<1, <<"a", "a">>>>, <<1, <<"b", "a">>>>,
                         <<1, <<"a", "b">>>>, <<1, <<"b", "b">>>> >>

\* The discoveries of an instance of stream i, each as the key
\* <<t, i, j, p1, ..., pn>>: the t-th accepted head triggers slot j, and the
\* combination takes for slot k the head accepted pk-th.  When slot j is
\* triggered the list of a slot before j already holds the new head, the list
\* of a slot after j does not yet; a slot list keeps the order of acceptance,
\* so comparing p1..pn compares the places in the lists.
DiscoveryKeys(inst) ==
    LET i == inst[1]
        n == Len(streams[i].domain)
        found == {x \in (1..n) \X CompatibleTuples(i, atoms) :
                     LET j == x[1]
                         c == x[2]
                         t == IndexOf(submitted, c[j])
                     IN  /\ \A k \in (1..n) \ {j} :
                               IndexOf(submitted, c[k]) <= (IF k < j THEN t ELSE t - 1)
                         /\ Grounds(i, c)
                         /\ InstanceOf(i, c) = inst}
    IN  {<<IndexOf(submitted, x[2][x[1]]), i, x[1]>>
             \o [k \in 1..n |-> IndexOf(submitted, x[2][k])] : x \in found}

\* A stream without inputs is instantiated by the constructor, in declaration
\* order, ahead of every fact.
Keys(inst) ==
    IF streams[inst[1]].inputs = <<>> THEN {<<0, inst[1]>>} ELSE DiscoveryKeys(inst)

LexLess(a, b) ==
    \E k \in 1..Min(Len(a), Len(b)) :
        a[k] < b[k] /\ \A m \in 1..(k - 1) : a[m] = b[m]

FirstKey(inst) ==
    CHOOSE key \in Keys(inst) : \A other \in Keys(inst) : other = key \/ LexLess(key, other)

\* C10: the queue is the not yet popped tail of the log of appends, and the
\* log is ordered by first discovery: by the submission index of the
\* triggering fact, then the stream index, then the triggering slot, then the
\* lexicographic order of the combination over the slot lists.  The order is
\* thus a function of the streams and the sequence of accepted facts.
C10_DiscoveryOrder ==
    /\ enq = popped \o stream_queue
    /\ \A p \in 1..Len(enq) : Keys(enq[p]) # {}
    /\ LET first == [p \in 1..Len(enq) |-> FirstKey(enq[p])]
       IN  \A p, q \in 1..Len(enq) : p < q => LexLess(first[p], first[q])

\* Several instances were appended, one was popped, and one of them was
\* discovered more than once.
C10_Witness ==
    /\ Len(enq) >= 3
    /\ popped # <<>>
    /\ \E inst \in Range(enq) : Cardinality(Keys(inst)) >= 2

\* The argument positions <<k, p>> of a sequence of heads.
Positions(heads) ==
    {kp \in (1..Len(heads)) \X (1..3) : kp[2] <= Len(heads[kp[1]][2])}

ArgAt(heads, kp) == heads[kp[1]][2][kp[2]]

\* Some symbol of atoms1, parameter or literal constant, stands at two
\* positions whose arguments in atoms2 differ.
SymbolConflict(atoms1, atoms2) ==
    \E kp, lq \in Positions(atoms1) :
        /\ ArgAt(atoms1, kp) = ArgAt(atoms1, lq)
        /\ ArgAt(atoms2, kp) # ArgAt(atoms2, lq)

\* Some literal constant of atoms1 meets another argument in atoms2.
ConstantDiffers(atoms1, atoms2) ==
    \E kp \in Positions(atoms1) :
        /\ ArgAt(atoms1, kp) \in Object
        /\ ArgAt(atoms2, kp) # ArgAt(atoms1, kp)

\* C11 as stated: whenever a domain-side argument is a literal constant and
\* the candidate argument at its position differs, get_mapping returns None.
C11_ConstantMismatchFails ==
    (op = "get_mapping" /\ ConstantDiffers(arg[1], arg[2])) => ret.status = "None"

\* C11, amended: get_mapping has no test of its own for literal constants; it
\* binds a constant as it binds a parameter.  It returns None exactly when
\* some symbol of the domain side stands at two positions whose candidate
\* arguments differ, and otherwise a mapping that takes every domain-side
\* argument, the constants included, to the candidate argument at its
\* position.
C11_ConstantBoundLikeParameter ==
    op = "get_mapping" =>
        /\ ret.status \in {"mapping", "None"}
        /\ ret.status = "None" <=> SymbolConflict(arg[1], arg[2])
        /\ ret.status = "mapping" =>
              /\ DOMAIN ret.mapping = {ArgAt(arg[1], kp) : kp \in Positions(arg[1])}
              /\ \A kp \in Positions(arg[1]) :
                    ret.mapping[ArgAt(arg[1], kp)] = ArgAt(arg[2], kp)

\* get_mapping returned a mapping that takes a literal constant to another
\* object.
C11_Witness ==
    /\ op = "get_mapping"
    /\ ret.status = "mapping"
    /\ \E c \in DOMAIN ret.mapping : c \in Object /\ ret.mapping[c] # c
    /\ \E x \in DOMAIN ret.mapping : x \notin Object

\* Some parameter of atoms1 stands at two positions whose arguments in atoms2
\* differ.
ParameterConflict(atoms1, atoms2) ==
    \E kp, lq \in Positions(atoms1) :
        /\ ArgAt(atoms1, kp) = ArgAt(atoms1, lq)
        /\ ArgAt(atoms1, kp) \notin Object
        /\ ArgAt(atoms2, kp) # ArgAt(atoms2, lq)

\* The heads of the facts a caller may submit.
FactHeads == {atom.head : atom \in facts}

\* C12: on every combination of slot-compatible heads, get_mapping returns
\* None when some parameter stands at two positions with different candidate
\* objects, and otherwise a mapping that binds every parameter of the domain
\* to the candidate object at each of its positions; a rejected combination
\* prunes only itself: every combination of known slot-compatible heads has
\* been passed to get_mapping, and those that ground have their instance.
C12_AllOrNothing ==
    \A i \in 1..Len(streams) :
        /\ \A c \in CompatibleTuples(i, FactHeads) :
              LET m == get_mapping(DomainHeads(i), c)
              IN  IF ParameterConflict(DomainHeads(i), c)
                  THEN m.status = "None" /\ m.mapping = EmptyMapping
                  ELSE /\ m.status = "mapping"
                       /\ \A kp \in Positions(DomainHeads(i)) :
                             ArgAt(DomainHeads(i), kp) \notin Object =>
                                /\ ArgAt(DomainHeads(i), kp) \in DOMAIN m.mapping
                                /\ m.mapping[ArgAt(DomainHeads(i), kp)] = ArgAt(c, kp)
        /\ streams[i].domain # <<>> =>
              \A c \in CompatibleTuples(i, atoms) :
                  /\ <<i, c>> \in Range(unified)
                  /\ Grounds(i, c) => InstanceOf(i, c) \in stream_instances

\* In one Cartesian product get_mapping rejected a combination, and the next
\* combination of the same product was unified and enqueued its instance.
C12_Witness ==
    \E p \in 1..(Len(unified) - 1) :
        /\ unified[p][1] = unified[p + 1][1]
        /\ triggers[p] = triggers[p + 1]
        /\ ParameterConflict(DomainHeads(unified[p][1]), unified[p][2])
        /\ get_mapping(DomainHeads(unified[p][1]), unified[p][2]).status = "None"
        /\ Grounds(unified[p + 1][1], unified[p + 1][2])
        /\ InstanceOf(unified[p + 1][1], unified[p + 1][2]) \in Range(enq)
        /\ op = "add_atom" /\ ret = "True"

\* C13: every combination passed to get_mapping in the trigger of a new head
\* at slot j has that head at position j, and over the whole run no
\* <<stream, combination>> is passed to get_mapping twice, whatever number of
\* slots of a stream the head matches.
C13_SemiNaive ==
    /\ Len(triggers) = Len(unified)
    /\ \A p \in 1..Len(unified) : unified[p][2][triggers[p][1]] = triggers[p][2]
    /\ \A p, q \in 1..Len(unified) : p # q => unified[p] # unified[q]

\* One head matched two slots of one stream, each trigger passed
\* combinations, and the heads known before took part in them.
C13_Witness ==
    \E p, q \in 1..Len(unified) :
        /\ unified[p][1] = unified[q][1]
        /\ triggers[p][2] = triggers[q][2]
        /\ triggers[p][1] # triggers[q][1]
        /\ \E k \in 1..Len(unified[q][2]) : unified[q][2][k] # triggers[q][2]
        /\ Len(unified) >= 4

\* C14: in every state, the index list of slot j of stream i holds exactly
\* the known heads that are slot-compatible with domain fact j of stream i,
\* each once, in the order of their first submission.
C14_DomainIndex ==
    /\ Range(submitted) = atoms
    /\ Len(submitted) = Cardinality(atoms)
    /\ \A s \in SlotSet(streams) :
          atoms_from_domain[s] =
              SelectSeq(submitted,
                        LAMBDA h : SlotCompatible(h, streams[s[1]].domain[s[2]]))

\* A slot with a literal constant holds two heads in the order of their
\* submission, and a known head of the same predicate is not in its list.
C14_Witness ==
    \E s \in SlotSet(streams) :
        /\ Len(atoms_from_domain[s]) >= 2
        /\ \E k \in 2..Len(streams[s[1]].domain[s[2]]) :
              streams[s[1]].domain[s[2]][k] \in Object
        /\ \E h \in atoms :
              /\ h[1] = streams[s[1]].domain[s[2]][1]
              /\ h \notin Range(atoms_from_domain[s])
              /\ IndexOf(submitted, h) < IndexOf(submitted, atoms_from_domain[s][2])

IsPrefix(s, t) == Len(s) <= Len(t) /\ \A k \in 1..Len(s) : s[k] = t[k]

\* C15: no step removes a head from atoms or an instance from the instance
\* set, every index list is a prefix of what it is after the step, and only
\* the consumer's popleft removes anything: the front of the queue, and
\* nothing else changes; add_atom only appends to the queue.
C15_Monotonic ==
    [][/\ atoms \subseteq atoms'
       /\ stream_instances \subseteq stream_instances'
       /\ \A s \in SlotSet(streams) :
             IsPrefix(atoms_from_domain[s], atoms_from_domain'[s])
       /\ IF op' = "popleft"
          THEN /\ stream_queue = <<Head(stream_queue)>> \o stream_queue'
               /\ UNCHANGED <<atoms, atoms_from_domain, stream_instances>>
          ELSE IsPrefix(stream_queue, stream_queue')]_vars

\* After pops that left instances in the queue, an add_atom extended an
\* index list that held a head and the queue.
C15_Witness ==
    /\ op = "add_atom"
    /\ ret = "True"
    /\ popped # <<>>
    /\ Len(stream_queue) >= 2
    /\ stream_queue[Len(stream_queue)] = enq[Len(enq)]
    /\ Cardinality(stream_instances) > Len(stream_queue)
    /\ \E s \in SlotSet(streams) :
          /\ Len(atoms_from_domain[s]) >= 2
          /\ atoms_from_domain[s][Len(atoms_from_domain[s])] = arg.head

\* A position of the parameter in the domain of stream i.
PositionOf(i, parameter) ==
    CHOOSE kp \in Positions(DomainHeads(i)) : ArgAt(DomainHeads(i), kp) = parameter

\* The candidate objects of a combination at the positions of the declared
\* inputs of stream i, in the declared order.
InputTuple(i, combo) ==
    [k \in 1..Len(streams[i].inputs) |-> ArgAt(combo, PositionOf(i, streams[i].inputs[k]))]

\* The combinations of stream i that get_mapping accepted.
Unified(i) ==
    {unified[p][2] : p \in {p \in 1..Len(unified) :
        /\ unified[p][1] = i
        /\ get_mapping(DomainHeads(i), unified[p][2]).status = "mapping"}}

\* C16: the instances of a stream with inputs are exactly the input tuples
\* (m[p1], ..., m[pn]) of the combinations get_mapping accepted, in the
\* declared order of the inputs p1, ..., pn, and hold nothing else: with
\* inputs [?y, ?x] and domain [Pred2(?x, ?y)], the fact Pred2(a, b) gives the
\* instance with inputs (b, a).
C16_DeclaredInputOrder ==
    /\ \A i \in 1..Len(streams) :
          streams[i].inputs # <<>> =>
             {inst[2] : inst \in {inst \in stream_instances : inst[1] = i}}
                = {InputTuple(i, c) : c \in Unified(i)}
    /\ \A inst \in stream_instances : Len(inst[2]) = Len(streams[inst[1]].inputs)
    /\ (streams = ScenarioOrder.streams /\ <<"Pred2", <<"a", "b">>>> \in atoms)
          => <<1, <<"b", "a">>>> \in stream_instances
    /\ (streams = ScenarioOrder.streams /\ <<1, <<"a", "b">>>> \in stream_instances)
          => <<"Pred2", <<"b", "a">>>> \in atoms

\* Pred2(a, b) was submitted to the stream with inputs [?y, ?x] and domain
\* [Pred2(?x, ?y)], Pred2(b, a) was not, and the instance with inputs (b, a)
\* was enqueued.
C16_Witness ==
    /\ streams = ScenarioOrder.streams
    /\ <<"Pred2", <<"a", "b">>>> \in atoms
    /\ <<"Pred2", <<"b", "a">>>> \notin atoms
    /\ <<1, <<"b", "a">>>> \in Range(enq)
    /\ op = "add_atom" /\ ret = "True"

\* The head is slot-compatible with no domain fact of any stream.
MatchesNoSlot(head) ==
    \A s \in SlotSet(streams) : ~SlotCompatible(head, streams[s[1]].domain[s[2]])

\* C17: add_atom of a well-formed atom whose head is new and slot-compatible
\* with no slot returns true and adds the head to atoms, and leaves every
\* index list, the instance set and the queue as they were; add_atom of the
\* same atom again returns false.
C17_UnmatchedFactAccepted ==
    /\ [][(/\ op' = "add_atom"
            /\ is_atom(arg')
            /\ arg'.head \notin atoms
            /\ MatchesNoSlot(arg'.head))
              => /\ ret' = "True"
                 /\ atoms' = atoms \cup {arg'.head}
                 /\ UNCHANGED <<atoms_from_domain, stream_instances, stream_queue>>]_vars
    /\ [](\A atom \in facts :
            (is_atom(atom) /\ atom.head \notin atoms /\ MatchesNoSlot(atom.head))
               => LET once == add_atom(Self, atom)
                  IN  /\ once.ret = "True"
                      /\ add_atom(once.self, atom).ret = "False")

\* An engine with heads in its index lists and instances in its queue
\* accepted a fact that no slot matches.
C17_Witness ==
    /\ op = "add_atom"
    /\ ret = "True"
    /\ is_atom(arg)
    /\ MatchesNoSlot(arg.head)
    /\ arg.head \in atoms
    /\ stream_queue # <<>>
    /\ \E s \in SlotSet(streams) : atoms_from_domain[s] # <<>>

NoDuplicates(seq) == \A p, q \in 1..Len(seq) : p # q => seq[p] # seq[q]

\* C18: in every state the queue holds no instance twice, every queued
\* instance is in the instance set, and the instance set is the disjoint
\* union of the instances in the queue and the instances already popped.
C18_QueueConsistent ==
    /\ NoDuplicates(stream_queue)
    /\ Range(stream_queue) \subseteq stream_instances
    /\ stream_instances = Range(stream_queue) \cup Range(popped)
    /\ Range(stream_queue) \cap Range(popped) = {}

\* Instances were popped, others are still queued, and the last add_atom
\* met an instance the set already held.
C18_Witness ==
    /\ popped # <<>>
    /\ Len(stream_queue) >= 2
    /\ op = "add_atom"
    /\ ret = "True"
    /\ \E p \in 1..Len(unified) :
          /\ triggers[p][2] = arg.head
          /\ Grounds(unified[p][1], unified[p][2])
          /\ InstanceOf(unified[p][1], unified[p][2]) \in Range(popped)

\* The objects of the facts a caller may submit.
Universe == UNION {Range(atom.head[2]) : atom \in facts}

\* The queue is empty and add_atom of every fact returns false.
Quiescent ==
    /\ stream_queue = <<>>
    /\ \A atom \in facts : add_atom(Self, atom).ret = "False"

\* C19: under a fair consumer that pops the front instance and submits the
\* facts of a finite universe, the engine reaches and keeps a state where the
\* queue is empty and every add_atom returns false; no instance is enqueued
\* twice, and the enqueues of a stream are at most the input tuples over the
\* universe.
C19_Quiescence ==
    /\ [](/\ NoDuplicates(enq)
          /\ \A i \in 1..Len(streams) :
                Cardinality({p \in 1..Len(enq) : enq[p][1] = i})
                    <= Cardinality(Universe) ^ Len(streams[i].inputs))
    /\ <>[]Quiescent

\* Every fact was submitted and every instance popped, and a further add_atom
\* returned false.
C19_Witness ==
    /\ Quiescent
    /\ Len(popped) >= 3
    /\ Len(popped) = Len(enq)
    /\ op = "add_atom"
    /\ ret = "False"

====
